---- MODULE Spec2Model ----
(***************************************************************************)
(* Model of src/src/main.rs: a one-shot Vulkan program that creates a      *)
(* TRANSFER_DST buffer, binds it to a gpu_allocator allocation, records    *)
(* one cmd_fill_buffer, submits it with a fence, waits, hands the mapped   *)
(* bytes to image::save_buffer and tears everything down.                  *)
(*                                                                         *)
(* The host is the sequential control flow of main (variable pc names the  *)
(* statement that runs next).  The device is the only concurrent actor:    *)
(* it executes the submitted command buffer and signals the fence.         *)
(* Calls into ash / gpu_allocator / image are modelled by their contracts; *)
(* their results (failure, memory requirements, offset, stale memory       *)
(* content, effect of an out-of-range fill) are nondeterministic.          *)
(***************************************************************************)
EXTENDS Integers, Sequences, FiniteSets, TLC

\* ------------------------------------------------------------------ bounds
\* width and height range over 1..MaxDim (main.rs fixes both to 720).
MaxDim == 2
\* the device reports an alignment of 4 * 2^k bytes, k in 0..MaxAlignLog
MaxAlignLog == 1
\* the device may report a size up to MaxPadUnits alignments above the
\* rounded-up buffer size
MaxPadUnits == 1
\* the allocator may place the allocation at offset k * alignment,
\* k in 0..MaxOffsetUnits
MaxOffsetUnits == 1

\* ------------------------------------------------------------- constants
\* std::mem::size_of::<i32>() (main.rs:56)
BytesPerValue == 4

\* a 32-bit value is kept as its two 16-bit halves (hi * 2^16 + lo), since
\* 255 << 24 exceeds the integers TLC computes with.
\* the fill values the configuration is drawn from: 255 << 24 = 0xFF000000
\* (main.rs:13) and 0x01020304, whose four bytes differ
Values == {[hi |-> 255 * 256, lo |-> 0], [hi |-> 258, lo |-> 772]}

\* what a byte of freshly allocated device memory may hold
StaleBytes == {0, 170}

RECURSIVE Pow2(_)
Pow2(k) == IF k = 0 THEN 1 ELSE 2 * Pow2(k - 1)

Alignments == {BytesPerValue * Pow2(k) : k \in 0..MaxAlignLog}
MaxAlignment == BytesPerValue * Pow2(MaxAlignLog)

RoundUp(n, a) == ((n + a - 1) \div a) * a

\* size of the one memory block of the allocator, large enough for every
\* offset and size the bounds allow (and for a fill that overruns them)
BlockSize ==
    2 * MaxOffsetUnits * MaxAlignment
      + RoundUp(MaxDim * MaxDim * BytesPerValue, MaxAlignment)
      + MaxPadUnits * MaxAlignment

VARIABLES
    pc,                  \* the statement of main that runs next
    width, height,       \* CONFIG
    value,               \* CONFIG: the 32-bit fill value
    physical_devices,    \* how many devices were enumerated (-1: not yet)
    live,                \* the resources that exist now
    acquired,            \* history: resources in order of acquisition
    released,            \* history: resources in order of release
    log,                 \* history: the pipeline steps executed, in order
    memory_requirements, \* result of get_buffer_memory_requirements
    allocation,          \* the Allocation: offset and size
    bound,               \* memory offsets the buffer was bound at, in order
    mem,                 \* content of the allocator's memory block
    written,             \* history: the addresses the device wrote
    cbState,             \* state of the command buffer
    cmds,                \* commands recorded into the command buffer
    submissions,         \* number of successful queue_submit calls
    fenceSignaled,       \* state of the fence
    waitResult,          \* what wait_for_fences returned
    data,                \* the mapped slice: start address and length
    encoderInput,        \* the bytes image::save_buffer was handed
    imageWritten,        \* image.png was written
    outcome,             \* "running", "Ok", "Err", "Panic"
    failedAt,            \* the step that failed, or "none"
    hazards,             \* lifetime violations observed
    run,                 \* number of the current run of the pipeline
    prevInput            \* the encoder input of the previous run

vars == <<pc, width, height, value, physical_devices, live,
          acquired, released, log,
          memory_requirements, allocation, bound, mem, written, cbState,
          cmds,
          submissions, fenceSignaled, waitResult, data, encoderInput,
          imageWritten, outcome, failedAt, hazards, run, prevInput>>

cfgVars == <<width, height, value>>
runVars == <<run, prevInput>>
ctxVars == <<physical_devices>>

NoRequirements == [size |-> 0, alignment |-> 0]
NoAllocation == [offset |-> 0, size |-> 0]
NoSlice == [start |-> 0, len |-> 0]

\* let value_count = width * height (main.rs:12)
value_count == width * height

\* .size(value_count * size_of::<i32>()) (main.rs:56)
BufferSize == value_count * BytesPerValue

\* byte i (0 = lowest) of the little-endian layout of the 32-bit value v
ByteOf(v, i) ==
    IF i < 2 THEN (v.lo \div Pow2(8 * i)) % 256
             ELSE (v.hi \div Pow2(8 * (i - 2))) % 256

resVars == <<live, acquired, released>>
memVars == <<memory_requirements, allocation, bound, mem, written>>
cmdVars == <<cbState, cmds, submissions, fenceSignaled, waitResult>>
outVars == <<data, encoderInput, imageWritten>>
endVars == <<outcome, failedAt>>

\* ------------------------------------------------------------------ Init
Init ==
    /\ pc = "entry_load"
    /\ width \in 1..MaxDim
    /\ height \in 1..MaxDim
    /\ value \in Values
    /\ physical_devices = -1
    /\ live = {}
    /\ acquired = <<>>
    /\ released = <<>>
    /\ log = <<>>
    /\ memory_requirements = NoRequirements
    /\ allocation = NoAllocation
    /\ bound = <<>>
    /\ mem = [a \in 0..(BlockSize - 1) |-> 0]
    /\ written = {}
    /\ cbState = "None"
    /\ cmds = <<>>
    /\ submissions = 0
    /\ fenceSignaled = FALSE
    /\ waitResult = "none"
    /\ data = NoSlice
    /\ encoderInput = <<>>
    /\ imageWritten = FALSE
    /\ outcome = "running"
    /\ failedAt = "none"
    /\ hazards = {}
    /\ run = 1
    /\ prevInput = <<>>

\* --------------------------------------------------------------- helpers
\* the statement `here` runs: it is appended to the history of steps
At(here) == pc = here /\ log' = Append(log, here)

\* the statement produced resource r
Acquire(r) == live' = live \cup {r} /\ acquired' = Append(acquired, r)

\* resources rs (a sequence) are destroyed, in that order; destroying
\* anything while the submitted command buffer is pending is recorded
Release(rs) ==
    /\ live' = live \ {rs[i] : i \in 1..Len(rs)}
    /\ released' = released \o rs
    /\ hazards' = IF cbState = "Pending"
                    THEN hazards \cup {rs[i] : i \in 1..Len(rs)}
                    ELSE hazards

\* control moves on to the statement `next`
Proceed(next) == pc' = next /\ UNCHANGED endVars

\* `?` on an Err (how = "Err") or unwrap() on an Err (how = "Panic"):
\* main is left at this statement; what remains is the drop of its locals
Fail(here, how) ==
    /\ pc' = "unwind"
    /\ outcome' = how
    /\ failedAt' = here

\* a fallible call that creates resource r: `create(...)?` or
\* `create(...).unwrap()`
Create(here, next, r, how) ==
    /\ At(here)
    /\ \/ Acquire(r) /\ Proceed(next)
       \/ Fail(here, how) /\ UNCHANGED <<live, acquired>>
    /\ UNCHANGED <<released, hazards, memVars, cmdVars, outVars, cfgVars, ctxVars,
                   runVars>>

\* ---------------------------------------------------------------- CONTEXT
\* let entry = unsafe { ash::Entry::load() }?;
EntryLoad == Create("entry_load", "create_instance", "entry", "Err")

\* unsafe { entry.create_instance(&create_info, None) }?
CreateInstance ==
    Create("create_instance", "enumerate_physical_devices", "instance", "Err")

\* mutant: the first element is taken without checking that there is one
EnumeratePhysicalDevicesUnchecked ==
    /\ At("enumerate_physical_devices")
    /\ \/ /\ physical_devices' \in 0..1
          /\ Proceed("create_device")
       \/ /\ Fail("enumerate_physical_devices", "Err")
          /\ UNCHANGED physical_devices
    /\ UNCHANGED <<resVars, hazards, memVars, cmdVars, outVars, cfgVars,
                   runVars>>

\* instance.enumerate_physical_devices()?.into_iter().next()
\*     .context("No physical device found!")?
\* n is the number of physical devices; the call itself may fail too
EnumeratePhysicalDevices ==
    /\ At("enumerate_physical_devices")
    /\ \/ /\ \E n \in 0..1 :
               /\ physical_devices' = n
               /\ IF n > 0
                    THEN Proceed("create_device")
                    ELSE Fail("enumerate_physical_devices", "Err")
       \/ /\ Fail("enumerate_physical_devices", "Err")
          /\ UNCHANGED physical_devices
    /\ UNCHANGED <<resVars, hazards, memVars, cmdVars, outVars, cfgVars,
                   runVars>>

\* unsafe { instance.create_device(physical_device, &create_info, None) }?
CreateDevice == Create("create_device", "get_device_queue", "device", "Err")

\* let queue = unsafe { device.get_device_queue(0, 0) };
GetDeviceQueue ==
    /\ At("get_device_queue")
    /\ Proceed("allocator_new")
    /\ UNCHANGED <<resVars, hazards, memVars, cmdVars, outVars, cfgVars, ctxVars,
                   runVars>>

\* Allocator::new(&allocator_create_desc)?
AllocatorNew == Create("allocator_new", "create_buffer", "allocator", "Err")

\* unsafe { device.create_buffer(&create_info, None) }.unwrap()
CreateBuffer ==
    Create("create_buffer", "get_buffer_memory_requirements", "buffer",
           "Panic")

\* ------------------------------------------------------ BUFFER ALLOCATION
\* what the device may report for a buffer of n bytes: an alignment, and a
\* size that is a multiple of it and at least n
PossibleRequirements(n) ==
    {[size |-> RoundUp(n, a) + p * a, alignment |-> a] :
        a \in Alignments, p \in 0..MaxPadUnits}

\* let memory_requirements = device.get_buffer_memory_requirements(buffer)
GetBufferMemoryRequirements ==
    /\ At("get_buffer_memory_requirements")
    /\ memory_requirements' \in PossibleRequirements(BufferSize)
    /\ Proceed("allocate")
    /\ UNCHANGED <<resVars, hazards, allocation, bound, mem, written, cmdVars,
                   outVars, cfgVars, ctxVars,
                   runVars>>

\* what allocator.allocate may return for requirements req: a region of
\* req.size bytes at an offset that is a multiple of req.alignment
PossibleAllocations(req) ==
    {[offset |-> k * req.alignment, size |-> req.size] :
        k \in 0..MaxOffsetUnits}

\* mutant: a failed allocate is not propagated
AllocateUnchecked ==
    /\ At("allocate")
    /\ \/ /\ allocation' \in PossibleAllocations(memory_requirements)
          /\ \E g \in StaleBytes : mem' = [a \in DOMAIN mem |-> g]
          /\ Acquire("allocation")
          /\ Proceed("bind_buffer_memory")
       \/ /\ Proceed("bind_buffer_memory")
          /\ UNCHANGED <<allocation, mem, live, acquired>>
    /\ UNCHANGED <<released, hazards, memory_requirements, bound, written,
                   cmdVars,
                   outVars, cfgVars, ctxVars, runVars>>

\* let allocation = allocator.allocate(&allocation_create_description)?;
\* the memory behind a new allocation holds stale bytes
Allocate ==
    /\ At("allocate")
    /\ \/ /\ allocation' \in PossibleAllocations(memory_requirements)
          /\ \E g \in StaleBytes : mem' = [a \in DOMAIN mem |-> g]
          /\ Acquire("allocation")
          /\ Proceed("bind_buffer_memory")
       \/ /\ Fail("allocate", "Err")
          /\ UNCHANGED <<allocation, mem, live, acquired>>
    /\ UNCHANGED <<released, hazards, memory_requirements, bound, written,
                   cmdVars,
                   outVars, cfgVars, ctxVars,
                   runVars>>

\* mutant: a failed bind_buffer_memory is not propagated
BindBufferMemoryUnchecked ==
    /\ At("bind_buffer_memory")
    /\ \/ bound' = Append(bound, allocation.offset)
       \/ UNCHANGED bound
    /\ Proceed("create_command_pool")
    /\ UNCHANGED <<resVars, hazards, memory_requirements, allocation, mem,
                   written, cmdVars, outVars, cfgVars, ctxVars, runVars>>

\* device.bind_buffer_memory(buffer, allocation.memory(),
\*                           allocation.offset()).unwrap()
BindBufferMemory ==
    /\ At("bind_buffer_memory")
    /\ \/ bound' = Append(bound, allocation.offset)
            /\ Proceed("create_command_pool")
       \/ Fail("bind_buffer_memory", "Panic") /\ UNCHANGED bound
    /\ UNCHANGED <<resVars, hazards, memory_requirements, allocation, mem,
                   written,
                   cmdVars, outVars, cfgVars, ctxVars,
                   runVars>>

\* ------------------------------------------------------- COMMAND BUFFER
\* unsafe { device.create_command_pool(&create_info, None) }?
CreateCommandPool ==
    Create("create_command_pool", "allocate_command_buffers", "command_pool",
           "Err")

\* device.allocate_command_buffers(&create_info)?.into_iter().next()
\*     .context("Allocation of Command Buffer failed!")?
AllocateCommandBuffers ==
    /\ At("allocate_command_buffers")
    /\ \/ cbState' = "Initial" /\ Proceed("begin_command_buffer")
       \/ Fail("allocate_command_buffers", "Err") /\ UNCHANGED cbState
    /\ UNCHANGED <<resVars, hazards, memVars, cmds, submissions,
                   fenceSignaled, waitResult, outVars, cfgVars, ctxVars,
                   runVars>>

\* unsafe { device.begin_command_buffer(command_buffer, &begin_info) }?
BeginCommandBuffer ==
    /\ At("begin_command_buffer")
    /\ \/ cbState' = "Recording" /\ Proceed("cmd_fill_buffer")
       \/ Fail("begin_command_buffer", "Err") /\ UNCHANGED cbState
    /\ UNCHANGED <<resVars, hazards, memVars, cmds, submissions,
                   fenceSignaled, waitResult, outVars, cfgVars, ctxVars,
                   runVars>>

\* device.cmd_fill_buffer(command_buffer, buffer, allocation.offset(),
\*                        allocation.size(), value)
\* arguments: dstOffset (relative to the buffer's start), size, data
CmdFillBuffer ==
    /\ At("cmd_fill_buffer")
    /\ cmds' = Append(cmds, [dstOffset |-> allocation.offset,
                             size |-> allocation.size,
                             data |-> value,
                             recordedIn |-> cbState])
    /\ Proceed("end_command_buffer")
    /\ UNCHANGED <<resVars, hazards, memVars, cbState, submissions,
                   fenceSignaled, waitResult, outVars, cfgVars, ctxVars,
                   runVars>>

\* mutant: recording is never ended
EndCommandBufferOmitted ==
    /\ At("end_command_buffer")
    /\ Proceed("create_fence")
    /\ UNCHANGED <<resVars, hazards, memVars, cmdVars, outVars, cfgVars,
                   ctxVars, runVars>>

\* mutant: the error of end_command_buffer is reported and the run goes on
EndCommandBufferContinue ==
    /\ At("end_command_buffer")
    /\ \/ cbState' = "Executable" /\ Proceed("create_fence")
       \/ /\ outcome' = "Err"
          /\ failedAt' = "end_command_buffer"
          /\ pc' = "create_fence"
          /\ UNCHANGED cbState
    /\ UNCHANGED <<resVars, hazards, memVars, cmds, submissions,
                   fenceSignaled, waitResult, outVars, cfgVars, ctxVars,
                   runVars>>

\* unsafe { device.end_command_buffer(command_buffer) }?;
EndCommandBuffer ==
    /\ At("end_command_buffer")
    /\ \/ cbState' = "Executable" /\ Proceed("create_fence")
       \/ Fail("end_command_buffer", "Err") /\ UNCHANGED cbState
    /\ UNCHANGED <<resVars, hazards, memVars, cmds, submissions,
                   fenceSignaled, waitResult, outVars, cfgVars, ctxVars,
                   runVars>>

\* mutant: the fence is created with FenceCreateFlags::SIGNALED
CreateFenceSignaled ==
    /\ At("create_fence")
    /\ \/ Acquire("fence") /\ fenceSignaled' = TRUE
            /\ Proceed("queue_submit")
       \/ Fail("create_fence", "Err")
            /\ UNCHANGED <<live, acquired, fenceSignaled>>
    /\ UNCHANGED <<released, hazards, memVars, cbState, cmds, submissions,
                   waitResult, outVars, cfgVars, ctxVars, runVars>>

\* unsafe { device.create_fence(&create_info, None) }?  (flags empty: the
\* fence is created unsignaled)
CreateFence ==
    /\ At("create_fence")
    /\ \/ Acquire("fence") /\ fenceSignaled' = FALSE
            /\ Proceed("queue_submit")
       \/ Fail("create_fence", "Err")
            /\ UNCHANGED <<live, acquired, fenceSignaled>>
    /\ UNCHANGED <<released, hazards, memVars, cbState, cmds, submissions,
                   waitResult, outVars, cfgVars, ctxVars,
                   runVars>>

\* mutant: the command buffer is submitted twice
QueueSubmitTwice ==
    /\ At("queue_submit")
    /\ \/ /\ cbState' = "Pending"
          /\ submissions' = submissions + 2
          /\ Proceed("wait_for_fences")
       \/ Fail("queue_submit", "Panic") /\ UNCHANGED <<cbState, submissions>>
    /\ UNCHANGED <<resVars, hazards, memVars, cmds, fenceSignaled,
                   waitResult, outVars, cfgVars, ctxVars, runVars>>

\* device.queue_submit(queue, from_ref(&submit_info), fence).unwrap()
QueueSubmit ==
    /\ At("queue_submit")
    /\ \/ /\ cbState' = "Pending"
          /\ submissions' = submissions + 1
          /\ Proceed("wait_for_fences")
       \/ Fail("queue_submit", "Panic") /\ UNCHANGED <<cbState, submissions>>
    /\ UNCHANGED <<resVars, hazards, memVars, cmds, fenceSignaled,
                   waitResult, outVars, cfgVars, ctxVars,
                   runVars>>

\* ------------------------------------------------------------ THE DEVICE
Min(a, b) == IF a < b THEN a ELSE b

\* vkCmdFillBuffer's valid usage for a buffer of n bytes: dstOffset is less
\* than the buffer's size and size fits in what follows dstOffset
FillIsValid(c, n) == c.dstOffset < n /\ c.size <= n - c.dstOffset

\* what an out-of-range fill may do on a device: nothing, write the part
\* that lies inside the buffer, or write the whole range
FillEffects == {"none", "clip", "overrun"}

\* whether fill command c writes address a of the memory block, for a
\* buffer of n bytes bound at memory offset b: the range starts dstOffset
\* bytes into the buffer
FillWrites(a, c, n, b, effect) ==
    /\ b + c.dstOffset <= a
    /\ IF FillIsValid(c, n) \/ effect = "overrun"
         THEN a < b + c.dstOffset + c.size
         ELSE effect = "clip" /\ a < b + Min(c.dstOffset + c.size, n)

\* the addresses of the memory block that fill command c writes
FillTargets(c, n, b, effect) ==
    {a \in DOMAIN mem : FillWrites(a, c, n, b, effect)}

\* the memory block after the device has executed fill command c: the
\* 32-bit value is repeated from the start of the range
FillResult(c, n, b, effect) ==
    [a \in DOMAIN mem |->
        IF FillWrites(a, c, n, b, effect)
          THEN ByteOf(c.data, (a - (b + c.dstOffset)) % BytesPerValue)
          ELSE mem[a]]

\* mutant: the device completes the work but the fence is not signaled
DeviceExecuteNoSignal ==
    /\ cbState = "Pending"
    /\ pc # "exit"
    /\ cbState' = "Completed"
    /\ \E effect \in FillEffects :
         /\ mem' = FillResult(cmds[1], BufferSize, bound[Len(bound)], effect)
         /\ written' = FillTargets(cmds[1], BufferSize, bound[Len(bound)],
                                   effect)
    /\ UNCHANGED <<pc, log, endVars, resVars, hazards, memory_requirements,
                   allocation, bound, cmds, submissions, fenceSignaled,
                   waitResult, outVars, cfgVars, ctxVars, runVars>>

\* the device executes the submitted command buffer (its one fill command)
\* and signals the fence of the submission
DeviceExecute ==
    /\ cbState = "Pending"
    /\ pc # "exit"
    /\ cbState' = "Completed"
    /\ fenceSignaled' = TRUE
    /\ IF "allocation" \in live
         THEN /\ \E effect \in FillEffects :
                   /\ mem' = FillResult(cmds[1], BufferSize,
                                        bound[Len(bound)], effect)
                   /\ written' = FillTargets(cmds[1], BufferSize,
                                             bound[Len(bound)], effect)
              /\ UNCHANGED hazards
         ELSE /\ hazards' = hazards \cup {"write_after_free"}
              /\ UNCHANGED <<mem, written>>
    /\ UNCHANGED <<pc, log, endVars, resVars, memory_requirements,
                   allocation, bound, cmds, submissions, waitResult, outVars,
                   cfgVars, ctxVars,
                   runVars>>

\* --------------------------------------------------------- WAIT AND READ
\* what wait_for_fences returns when it does not return SUCCESS
WaitFailures == {"TIMEOUT", "ERROR_DEVICE_LOST"}

\* mutant: the result of wait_for_fences is discarded
WaitForFencesUnchecked ==
    /\ At("wait_for_fences")
    /\ waitResult' \in IF fenceSignaled THEN {"SUCCESS"} ELSE WaitFailures
    /\ Proceed("mapped_slice")
    /\ UNCHANGED <<resVars, hazards, memVars, cbState, cmds, submissions,
                   fenceSignaled, outVars, cfgVars, ctxVars, runVars>>

\* device.wait_for_fences(from_ref(&fence), true, u64::MAX)?;
\* returns SUCCESS only once the fence is signaled
WaitForFences ==
    /\ At("wait_for_fences")
    /\ \/ /\ fenceSignaled
          /\ waitResult' = "SUCCESS"
          /\ Proceed("mapped_slice")
       \/ /\ waitResult' \in WaitFailures
          /\ Fail("wait_for_fences", "Err")
    /\ UNCHANGED <<resVars, hazards, memVars, cbState, cmds, submissions,
                   fenceSignaled, outVars, cfgVars, ctxVars,
                   runVars>>

\* let data = allocation.mapped_slice().context("Cannot Able ...")?;
\* the slice covers the allocation: size bytes from its offset
MappedSlice ==
    /\ At("mapped_slice")
    /\ \/ /\ data' = [start |-> allocation.offset, len |-> allocation.size]
          /\ Proceed("save_buffer")
       \/ Fail("mapped_slice", "Err") /\ UNCHANGED data
    /\ UNCHANGED <<resVars, hazards, memVars, cmdVars, encoderInput,
                   imageWritten, cfgVars, ctxVars,
                   runVars>>

\* channels of image::ColorType::Rgba8, one byte each (main.rs:143)
Rgba8Bytes == 4

\* the bytes the host reads through slice d
SliceBytes(d) == [i \in 1..d.len |-> mem[d.start + i - 1]]

\* mutant: a failed save_buffer is tried again
SaveBufferRetry ==
    /\ At("save_buffer")
    /\ encoderInput' = SliceBytes(data)
    /\ \/ /\ data.len = width * height * Rgba8Bytes
          /\ imageWritten' = TRUE
          /\ Proceed("destroy_fence")
       \/ /\ Proceed("save_buffer")
          /\ UNCHANGED imageWritten
    /\ UNCHANGED <<resVars, hazards, memVars, cmdVars, data, cfgVars,
                   ctxVars, runVars>>

\* image::save_buffer("image.png", data, width as u32, height as u32,
\*                    image::ColorType::Rgba8)?;
\* the encoder writes the image only if it is given width*height*4 bytes,
\* and fails otherwise (by an Err or, in some versions, an assertion)
SaveBuffer ==
    /\ At("save_buffer")
    /\ encoderInput' = SliceBytes(data)
    /\ \/ /\ data.len = width * height * Rgba8Bytes
          /\ imageWritten' = TRUE
          /\ Proceed("destroy_fence")
       \/ /\ Fail("save_buffer", "Err")
          /\ UNCHANGED imageWritten
       \/ /\ data.len # width * height * Rgba8Bytes
          /\ Fail("save_buffer", "Panic")
          /\ UNCHANGED imageWritten
    /\ UNCHANGED <<resVars, hazards, memVars, cmdVars, data, cfgVars, ctxVars,
                   runVars>>

\* -------------------------------------------------------------- CLEAN UP
\* an infallible destroy call on resource r
Destroy(here, next, r) ==
    /\ At(here)
    /\ Release(<<r>>)
    /\ Proceed(next)
    /\ UNCHANGED <<acquired, memVars, cmdVars, outVars, cfgVars, ctxVars,
                   runVars>>

\* unsafe { device.destroy_fence(fence, None) }
DestroyFence == Destroy("destroy_fence", "destroy_command_pool", "fence")

\* unsafe { device.destroy_command_pool(command_pool, None) }
DestroyCommandPool ==
    Destroy("destroy_command_pool", "allocator_free", "command_pool")

\* mutant: the allocation is never handed back to the allocator
AllocatorFreeOmitted ==
    /\ At("allocator_free")
    /\ Proceed("drop_allocator")
    /\ UNCHANGED <<resVars, hazards, memVars, cmdVars, outVars, cfgVars,
                   ctxVars, runVars>>

\* allocator.free(allocation).unwrap();
AllocatorFree ==
    /\ At("allocator_free")
    /\ \/ Release(<<"allocation">>) /\ Proceed("drop_allocator")
       \/ Fail("allocator_free", "Panic")
            /\ UNCHANGED <<live, released, hazards>>
    /\ UNCHANGED <<acquired, memVars, cmdVars, outVars, cfgVars, ctxVars,
                   runVars>>

\* mutant: the explicit drop is missing, the allocator lives to the end
\* of main
DropAllocatorOmitted ==
    /\ At("drop_allocator")
    /\ Proceed("destroy_buffer")
    /\ UNCHANGED <<resVars, hazards, memVars, cmdVars, outVars, cfgVars,
                   ctxVars, runVars>>

\* drop(allocator);
DropAllocator == Destroy("drop_allocator", "destroy_buffer", "allocator")

\* unsafe { device.destroy_buffer(buffer, None) }
DestroyBuffer == Destroy("destroy_buffer", "destroy_device", "buffer")

\* unsafe { device.destroy_device(None) }
DestroyDevice == Destroy("destroy_device", "destroy_instance", "device")

\* unsafe { instance.destroy_instance(None) }
DestroyInstance == Destroy("destroy_instance", "return_ok", "instance")

\* the locals of main that have a Drop implementation, in the order they
\* are dropped when main is left (reverse order of declaration): the
\* Allocator frees its device memory, and with it every allocation that
\* was not freed; the Entry unloads the library.  The ash handles
\* (instance, device, buffer, command pool, fence) have none.
DroppedLocals == <<"allocation", "allocator", "entry">>

IsLive(r) == r \in live

\* Ok(())  -- main returns, its remaining locals are dropped
ReturnOk ==
    /\ pc = "return_ok"
    /\ pc' = "exit"
    /\ outcome' = "Ok"
    /\ Release(SelectSeq(DroppedLocals, IsLive))
    /\ UNCHANGED <<log, failedAt, acquired, memVars, cmdVars, outVars,
                   cfgVars, ctxVars,
                   runVars>>

\* main is left early, by `?` or by a panic: its locals are dropped
Unwind ==
    /\ pc = "unwind"
    /\ pc' = "exit"
    /\ Release(SelectSeq(DroppedLocals, IsLive))
    /\ UNCHANGED <<log, endVars, acquired, memVars, cmdVars, outVars,
                   cfgVars, ctxVars,
                   runVars>>

\* ------------------------------------------------------------------ Spec
Next ==
    \/ EntryLoad
    \/ CreateInstance
    \/ EnumeratePhysicalDevices
    \/ CreateDevice
    \/ GetDeviceQueue
    \/ AllocatorNew
    \/ CreateBuffer
    \/ GetBufferMemoryRequirements
    \/ Allocate
    \/ BindBufferMemory
    \/ CreateCommandPool
    \/ AllocateCommandBuffers
    \/ BeginCommandBuffer
    \/ CmdFillBuffer
    \/ EndCommandBuffer
    \/ CreateFence
    \/ QueueSubmit
    \/ DeviceExecute
    \/ WaitForFences
    \/ MappedSlice
    \/ SaveBuffer
    \/ DestroyFence
    \/ DestroyCommandPool
    \/ AllocatorFree
    \/ DropAllocator
    \/ DestroyBuffer
    \/ DestroyDevice
    \/ DestroyInstance
    \/ ReturnOk
    \/ Unwind

Spec == Init /\ [][Next]_vars

\* ------------------------------------------------------------- fairness
\* the statements of main other than the fence wait: each is a call that
\* returns, with success or with the failure main propagates
HostCall ==
    \/ EntryLoad
    \/ CreateInstance
    \/ EnumeratePhysicalDevices
    \/ CreateDevice
    \/ GetDeviceQueue
    \/ AllocatorNew
    \/ CreateBuffer
    \/ GetBufferMemoryRequirements
    \/ Allocate
    \/ BindBufferMemory
    \/ CreateCommandPool
    \/ AllocateCommandBuffers
    \/ BeginCommandBuffer
    \/ CmdFillBuffer
    \/ EndCommandBuffer
    \/ CreateFence
    \/ QueueSubmit
    \/ MappedSlice
    \/ SaveBuffer
    \/ DestroyFence
    \/ DestroyCommandPool
    \/ AllocatorFree
    \/ DropAllocator
    \/ DestroyBuffer
    \/ DestroyDevice
    \/ DestroyInstance
    \/ ReturnOk
    \/ Unwind

\* wait_for_fences(.., u64::MAX) returning SUCCESS
WaitReturnsSuccess == WaitForFences /\ waitResult' = "SUCCESS"

\* the host thread keeps running: a call that can return does return; the
\* wait returns once the fence is signaled (with the timeout u64::MAX an
\* earlier return is an error, which nothing forces); the device finishes
\* the work it was given
Fairness ==
    /\ WF_vars(HostCall)
    /\ WF_vars(WaitReturnsSuccess)
    /\ WF_vars(DeviceExecute)

SpecFair == Spec /\ Fairness

\* ------------------------------------------------------------- two runs
\* the program is run again with the same configuration; the bytes the
\* previous run handed to the encoder are kept for comparison
MaxRuns == 2

RunAgain ==
    /\ pc = "exit"
    /\ run < MaxRuns
    /\ run' = run + 1
    /\ prevInput' = encoderInput
    /\ pc' = "entry_load"
    /\ physical_devices' = -1
    /\ live' = {}
    /\ acquired' = <<>>
    /\ released' = <<>>
    /\ log' = <<>>
    /\ memory_requirements' = NoRequirements
    /\ allocation' = NoAllocation
    /\ bound' = <<>>
    /\ mem' = [a \in DOMAIN mem |-> 0]
    /\ written' = {}
    /\ cbState' = "None"
    /\ cmds' = <<>>
    /\ submissions' = 0
    /\ fenceSignaled' = FALSE
    /\ waitResult' = "none"
    /\ data' = NoSlice
    /\ encoderInput' = <<>>
    /\ imageWritten' = FALSE
    /\ outcome' = "running"
    /\ failedAt' = "none"
    /\ hazards' = {}
    /\ UNCHANGED cfgVars

NextTwice == Next \/ RunAgain

SpecTwice == Init /\ [][NextTwice]_vars

\* =============================================================== claims
InLog(step) == \E i \in 1..Len(log) : log[i] = step
WasAcquired(r) == \E i \in 1..Len(acquired) : acquired[i] = r
WasReleased(r) == \E i \in 1..Len(released) : released[i] = r
Ended == pc \in {"unwind", "exit"}

\* C1: the host reads the mapped bytes (mapped_slice, then save_buffer)
\* only after wait_for_fences returned SUCCESS for the signaled fence of
\* the submission; when the wait returns a timeout or an error, the
\* memory is never read and no image is written.
C1_ReadOnlyAfterWait ==
    /\ (InLog("mapped_slice") \/ InLog("save_buffer") \/ data # NoSlice
          \/ encoderInput # <<>> \/ imageWritten)
         => (waitResult = "SUCCESS" /\ fenceSignaled
               /\ cbState = "Completed" /\ submissions = 1)
    /\ waitResult \in WaitFailures
         => (~InLog("mapped_slice") /\ ~InLog("save_buffer")
               /\ data = NoSlice /\ encoderInput = <<>> /\ ~imageWritten
               /\ Ended /\ outcome = "Err")

C1_Witness ==
    encoderInput # <<>> /\ imageWritten /\ waitResult = "SUCCESS"

\* the resources the device works with
DeviceResources ==
    {"fence", "command_pool", "allocation", "allocator", "buffer", "device"}

\* C2: on every exit path, no resource (fence, command pool, allocation
\* memory, buffer, device) is destroyed or freed while the submitted
\* command buffer is pending, that is while the fence is unsignaled.
C2_NoReleaseWhilePending ==
    /\ hazards \cap DeviceResources = {}
    /\ (cbState = "Pending" /\ ~fenceSignaled)
         => \A r \in DeviceResources : ~WasReleased(r)

\* the order of teardown the claim states
TeardownOrder ==
    <<"fence", "command_pool", "allocation", "allocator", "buffer",
      "device", "instance">>

IsPrefix(s, t) == Len(s) <= Len(t) /\ s = SubSeq(t, 1, Len(s))

\* C3: on a successful run each teardown action happens exactly once, in
\* the order fence, command pool, allocation (allocator.free), allocator,
\* buffer, device, instance; device and instance come last.
C3_TeardownOrder ==
    /\ outcome = "Ok"
         => /\ IsPrefix(TeardownOrder, released)
            /\ \A r \in DeviceResources \cup {"instance"} :
                 Cardinality({i \in 1..Len(released) : released[i] = r}) = 1
            /\ live = {}
    /\ (failedAt = "none" /\ pc # "exit")
         => IsPrefix(released, TeardownOrder)

C3_Witness == outcome = "Ok" /\ pc = "exit" /\ Len(released) > 0

\* C4: for all width, height > 0 and every size and alignment the device
\* may report, the byte sequence handed to the image encoder
\* (allocation.mapped_slice()) has length exactly width*height*4.
C4_PayloadLength ==
    /\ data # NoSlice => data.len = width * height * 4
    /\ InLog("save_buffer") => Len(encoderInput) = width * height * 4

\* C5: after the wait completed, every 4-byte pixel of the bytes read back
\* by the host equals the little-endian byte pattern of the fill value
\* (for 0xFF000000: R=0, G=0, B=0, A=255), whatever offset and size the
\* allocator returned; no byte read back is left unwritten.
C5_EveryPixelIsFillValue ==
    InLog("save_buffer")
      => \A i \in 1..Len(encoderInput) :
           encoderInput[i] = ByteOf(value, (i - 1) % 4)

\* C6: if enumerate_physical_devices yields no physical device, main ends
\* with an error before the allocator is created, before any buffer or
\* memory allocation is made and before any command is recorded or
\* submitted.
C6_NoDeviceEndsEarly ==
    physical_devices = 0
      => /\ Ended /\ outcome = "Err"
         /\ ~WasAcquired("device") /\ ~WasAcquired("allocator")
         /\ ~WasAcquired("buffer") /\ ~WasAcquired("allocation")
         /\ cbState = "None" /\ cmds = <<>> /\ submissions = 0
         /\ log[Len(log)] = "enumerate_physical_devices"

C6_Witness == physical_devices = 0 /\ pc = "exit"

\* C7: if allocator.allocate fails, the run ends with an error and no
\* command pool is created, no command buffer is allocated or recorded, no
\* fence is created and nothing is submitted.
C7_AllocateFailureEndsRun ==
    (InLog("allocate") /\ ~WasAcquired("allocation"))
      => /\ Ended /\ outcome = "Err"
         /\ ~WasAcquired("command_pool") /\ ~WasAcquired("fence")
         /\ cbState = "None" /\ cmds = <<>> /\ submissions = 0
         /\ bound = <<>>
         /\ log[Len(log)] = "allocate"

C7_Witness ==
    InLog("allocate") /\ ~WasAcquired("allocation") /\ pc = "exit"

\* the pipeline steps of main in program order
Pipeline ==
    <<"entry_load", "create_instance", "enumerate_physical_devices",
      "create_device", "get_device_queue", "allocator_new", "create_buffer",
      "get_buffer_memory_requirements", "allocate", "bind_buffer_memory",
      "create_command_pool", "allocate_command_buffers",
      "begin_command_buffer", "cmd_fill_buffer", "end_command_buffer",
      "create_fence", "queue_submit", "wait_for_fences", "mapped_slice",
      "save_buffer", "destroy_fence", "destroy_command_pool",
      "allocator_free", "drop_allocator", "destroy_buffer", "destroy_device",
      "destroy_instance">>

\* C8: a failure of any pipeline step ends the run at that step with a
\* failure outcome: no later step executes, no step is retried, and main
\* returns success only when the wait completed and the encoder wrote the
\* image.
C8_FailureEndsRun ==
    /\ failedAt # "none"
         => /\ Ended /\ outcome \in {"Err", "Panic"}
            /\ log[Len(log)] = failedAt
    /\ IsPrefix(log, Pipeline)
    /\ outcome = "Ok"
         => /\ failedAt = "none" /\ waitResult = "SUCCESS" /\ imageWritten
            /\ log = Pipeline
    /\ (Ended /\ failedAt = "none") => outcome = "Ok"

C8_Witness == failedAt = "end_command_buffer" /\ pc = "exit"

\* C9: on every exit path, error paths included, every resource acquired
\* before the exit (instance, device, buffer, allocation, command pool,
\* fence) has been released when the run ends; no handle is leaked.
C9_NothingLeaked ==
    pc = "exit" => \A r \in DeviceResources \cup {"instance"} : r \notin live

\* C10: two runs with the same width, height and fill value hand
\* byte-identical bytes to the encoder, whatever offset and size the
\* allocator returned and whatever the device's timing.
C10_RunsAgree ==
    (run > 1 /\ prevInput # <<>> /\ InLog("save_buffer"))
      => encoderInput = prevInput

\* C11: if the length of the mapped byte sequence differs from
\* width*height*4, the run ends with a fatal error before the bytes are
\* handed to the image encoder, and no image is reported as written.
C11_MismatchEndsBeforeEncode ==
    (data # NoSlice /\ data.len # width * height * 4)
      => /\ ~InLog("save_buffer")
         /\ encoderInput = <<>>
         /\ ~imageWritten
         /\ outcome # "Ok"

\* the states of the command buffer, in the order the claim gives
CbOrder ==
    <<"None", "Initial", "Recording", "Executable", "Pending", "Completed">>

CbRank(st) == CHOOSE i \in 1..Len(CbOrder) : CbOrder[i] = st

\* C12 (states): every recorded command was recorded while the command
\* buffer was Recording; once recording has ended exactly one command, the
\* fill, is in it; queue_submit is called only on an Executable buffer.
C12_RecordedWhileRecording ==
    /\ \A i \in 1..Len(cmds) : cmds[i].recordedIn = "Recording"
    /\ Len(cmds) <= 1
    /\ cbState \in {"Executable", "Pending", "Completed"} => Len(cmds) = 1
    /\ cbState \in {"None", "Initial"} => cmds = <<>>
    /\ pc = "queue_submit" => cbState = "Executable"

\* C12 (steps): the command buffer stays in its state or moves to the next
\* one of Initial, Recording, Executable, Pending, Completed; commands are
\* appended only while it is Recording.
C12_CbStep ==
    /\ cbState' # cbState => CbRank(cbState') = CbRank(cbState) + 1
    /\ cmds' # cmds => (cbState = "Recording" /\ cbState' = "Recording")

\* C12: the command buffer only moves through Initial, Recording,
\* Executable, Pending, Completed in that order, never backwards and never
\* skipping a state; the fill is recorded only while Recording, exactly
\* one command is recorded between begin and end, and queue_submit is
\* called only when the buffer is Executable.
C12_CommandBufferLifecycle ==
    [](C12_RecordedWhileRecording) /\ [][C12_CbStep]_vars

C12_Witness ==
    cbState = "Completed" /\ Len(cmds) = 1 /\ submissions = 1

Count(seq, x) == Cardinality({i \in 1..Len(seq) : seq[i] = x})

\* C13: at most one submission has been made and at most one command
\* buffer is in flight; the command buffer is recorded once, submitted
\* once, and never re-recorded or resubmitted.
C13_SingleSubmission ==
    /\ submissions <= 1
    /\ Count(log, "queue_submit") <= 1
    /\ Count(log, "begin_command_buffer") <= 1
    /\ Count(log, "cmd_fill_buffer") <= 1
    /\ Count(log, "end_command_buffer") <= 1
    /\ Count(log, "allocate_command_buffers") <= 1
    /\ cbState \in {"Pending", "Completed"} <=> submissions = 1

C13_Witness == submissions = 1 /\ cbState = "Pending"

\* C14: for every offset and size the allocator may return and every
\* memory-requirement size the device may report, the range
\* [fillOffset, fillOffset+fillSize) passed to cmd_fill_buffer lies within
\* the buffer: fillOffset + fillSize <= width*height*4.
C14_FillWithinBuffer ==
    \A i \in 1..Len(cmds) :
        cmds[i].dstOffset + cmds[i].size <= width * height * 4

\* C15: the set of backing-memory bytes written by the fill is exactly
\* the set of backing-memory bytes the host reads through the mapped
\* slice, [allocation.offset, allocation.offset + allocation.size), for
\* every offset the allocator may return.
C15_WrittenIsRead ==
    (cbState = "Completed" /\ data # NoSlice)
      => written = {a \in DOMAIN mem :
                      data.start <= a /\ a < data.start + data.len}

\* C16: the buffer is bound to an allocation exactly once, before any
\* command that references it is recorded, and never rebound; no command
\* referencing the buffer is recorded or submitted while it is unbound.
C16_BoundOnceBeforeUse ==
    /\ Len(bound) <= 1
    /\ Count(log, "bind_buffer_memory") <= 1
    /\ (cmds # <<>> \/ submissions > 0 \/ InLog("cmd_fill_buffer")
          \/ InLog("queue_submit"))
         => (Len(bound) = 1 /\ bound[1] = allocation.offset
               /\ WasAcquired("allocation"))
    /\ bound # <<>> => WasAcquired("buffer")

C16_Witness == Len(bound) = 1 /\ cmds # <<>> /\ submissions = 1

\* C17 (states): the fence is unsignaled when it is passed to
\* queue_submit, it is created once and belongs to the one submission, and
\* it is signaled only after the device completed the submitted fill.
C17_FenceStates ==
    /\ pc = "queue_submit" => ("fence" \in live /\ ~fenceSignaled)
    /\ Count(log, "create_fence") <= 1
    /\ Count(acquired, "fence") <= 1
    /\ submissions > 0 => WasAcquired("fence")
    /\ fenceSignaled => (cbState = "Completed" /\ submissions = 1)
    /\ waitResult = "SUCCESS" => (fenceSignaled /\ cbState = "Completed")

\* C17: the fence passed to queue_submit is fresh and unsignaled, is
\* attached to that one submission, is never reset or reused, and becomes
\* signaled only when the device has completed the fill; so
\* wait_for_fences returning success implies the fill has finished.
C17_FenceLifecycle ==
    [](C17_FenceStates) /\ [][fenceSignaled => fenceSignaled']_vars

C17_Witness == waitResult = "SUCCESS" /\ fenceSignaled /\ written # {}

\* the first position of x in seq, 0 if it does not occur
Pos(seq, x) ==
    IF \E i \in 1..Len(seq) : seq[i] = x
      THEN CHOOSE i \in 1..Len(seq) :
             seq[i] = x /\ \A j \in 1..(i - 1) : seq[j] # x
      ELSE 0

\* C18: the mapped bytes are read by the host exactly once, strictly after
\* the allocation was made and strictly before allocator.free releases
\* it; the mapped slice is never accessed after the free.
C18_ReadOnceWhileAllocated ==
    /\ Count(log, "mapped_slice") <= 1
    /\ Count(log, "save_buffer") <= 1
    /\ pc \in {"mapped_slice", "save_buffer"}
         => ("allocation" \in live /\ ~WasReleased("allocation"))
    /\ InLog("mapped_slice")
         => (WasAcquired("allocation")
               /\ 0 < Pos(log, "allocate")
               /\ Pos(log, "allocate") < Pos(log, "mapped_slice"))
    /\ InLog("allocator_free")
         => (0 < Pos(log, "save_buffer")
               /\ Pos(log, "save_buffer") < Pos(log, "allocator_free"))
    /\ WasReleased("allocation")
         => pc \in {"drop_allocator", "destroy_buffer", "destroy_device",
                    "destroy_instance", "return_ok", "unwind", "exit"}

C18_Witness ==
    pc = "drop_allocator" /\ WasReleased("allocation")
      /\ Count(log, "save_buffer") = 1

\* the resources the claim orders, and the order of acquisition it gives
AcquisitionOrder ==
    <<"instance", "device", "allocator", "buffer", "allocation",
      "command_pool", "fence">>

Ordered(r) == \E i \in 1..Len(AcquisitionOrder) : AcquisitionOrder[i] = r

\* r was released, and before q was
ReleasedBefore(r, q) ==
    0 < Pos(released, r) /\ Pos(released, r) < Pos(released, q)

\* C19 as stated: the teardown order on a successful run is the exact
\* reverse of the acquisition order (instance, device, allocator, buffer,
\* allocation, command pool, fence): every resource is destroyed before
\* every resource acquired earlier than it.
C19_ExactReverse ==
    outcome = "Ok"
      => /\ SelectSeq(acquired, Ordered) = AcquisitionOrder
         /\ \A i, j \in 1..Len(AcquisitionOrder) :
              i < j => ReleasedBefore(AcquisitionOrder[j],
                                      AcquisitionOrder[i])

\* C19 as amended: the teardown order on a successful run is the reverse
\* of the acquisition order except for one pair: the allocator, acquired
\* before the buffer, is dropped before the buffer is destroyed.  Every
\* other resource is destroyed before every resource acquired earlier.
C19_ReverseExceptAllocator ==
    outcome = "Ok"
      => /\ SelectSeq(acquired, Ordered) = AcquisitionOrder
         /\ \A i, j \in 1..Len(AcquisitionOrder) :
              i < j =>
                IF AcquisitionOrder[i] = "allocator"
                     /\ AcquisitionOrder[j] = "buffer"
                  THEN ReleasedBefore("allocator", "buffer")
                  ELSE ReleasedBefore(AcquisitionOrder[j],
                                      AcquisitionOrder[i])

C19_Witness ==
    outcome = "Ok" /\ ReleasedBefore("allocator", "buffer")
      /\ ReleasedBefore("fence", "instance")

\* C20 (blocking): every statement of main other than the fence wait can
\* always run; the wait can return SUCCESS exactly when the fence is
\* signaled, so the wait is the one point where the host blocks.
C20_BlocksOnlyAtWait ==
    /\ (pc # "exit" /\ pc # "wait_for_fences") => ENABLED HostCall
    /\ pc = "wait_for_fences"
         => (~ENABLED HostCall
               /\ (ENABLED WaitReturnsSuccess <=> fenceSignaled))

C20_Success ==
    /\ pc = "exit" /\ outcome = "Ok"
    /\ waitResult = "SUCCESS" /\ imageWritten
    /\ live = {}
    /\ DeviceResources \cup {"instance"}
         \subseteq {released[i] : i \in 1..Len(released)}

\* C20: the host blocks at exactly one point, the fence wait with an
\* unbounded timeout; if no step fails and the device eventually completes
\* the submitted work, every run eventually passes the wait, writes the
\* image, performs the full teardown and terminates with success.
C20_TerminatesWithSuccess ==
    /\ [](C20_BlocksOnlyAtWait)
    /\ (<>(failedAt # "none") \/ <>(C20_Success))

C20_Witness ==
    C20_Success /\ InLog("wait_for_fences") /\ Len(log) = Len(Pipeline)

====
